---- MODULE Spec2Model ----
(***************************************************************************)
(* A model of intelelm/model/base_elm.py: the MultiLayerELM network        *)
(* (weights, biases, beta, encode/decode/get_ndim), the bounds and         *)
(* objective resolvers of BaseMhaElm, and BaseMhaElm.fit.                  *)
(*                                                                         *)
(* Numbers are integers.  A matrix is a sequence of rows (row-major, as    *)
(* numpy stores it), a vector is a sequence.  A call that can raise        *)
(* returns a record whose field err is "none" or the exception's name.     *)
(***************************************************************************)
EXTENDS Integers, Sequences, FiniteSets, TLC

VARIABLES
    network,    \* the MultiLayerELM object (for BaseMhaElm: self.network)
    data,       \* the training inputs X
    call,       \* SpecNet: the last fit/decode call of the network and its outcome
    ret,        \* SpecNet: what encode() and get_ndim() returned since the last fit/decode
    pre,        \* SpecNet: the network as it was before the last decode(encode(), X, y)
    fits,       \* SpecNet: number of MultiLayerELM.fit calls made
    catalogs,   \* SpecRes: SUPPORTED_REG_OBJECTIVES and SUPPORTED_CLS_OBJECTIVES
    res,        \* SpecRes: the last _get_lb_ub/_get_minmax call and its outcome;
                \* SpecEst: the last get_name call and its outcome
    est,        \* SpecFit, SpecEst: the BaseMhaElm estimator's fields
    run,        \* SpecFit: the fit call in progress (arguments, position, locals)
    evals,      \* SpecFit: the fitness evaluations of the optimizer's workers
    copies      \* SpecFit: the network copy held by each worker process

netVars == <<call, ret, pre, fits>>
resVars == <<catalogs, res>>
fitVars == <<est, run, evals, copies>>
vars == <<network, data, call, ret, pre, fits, catalogs, res, est, run, evals, copies>>

----------------------------------------------------------------------------
(* Bounds of the model *)
MaxNeurons == 3     \* hidden neurons of a topology, over all its layers
MaxInput == 2       \* columns of X
MaxFits == 2        \* MultiLayerELM.fit calls on one network object

NoneInt == 0        \* input_size = None
FloatMax == 1000    \* the largest finite float; a value beyond it is inf

Min(a, b) == IF a < b THEN a ELSE b

RECURSIVE SeqsUpTo(_, _)
SeqsUpTo(S, n) ==
    IF n = 0 THEN {<<>>}
    ELSE LET shorter == SeqsUpTo(S, n - 1)
         IN shorter \cup {Append(s, x) : s \in {t \in shorter : Len(t) = n - 1}, x \in S}

RECURSIVE SumSeq(_)
SumSeq(s) == IF s = <<>> THEN 0 ELSE s[1] + SumSeq(Tail(s))

\* layer_sizes: every sequence of positive sizes with at most MaxNeurons neurons in all
Topologies == {t \in SeqsUpTo(1..MaxNeurons, MaxNeurons) : t # <<>> /\ SumSeq(t) <= MaxNeurons}
Seeds == {0, 1}
InputSizes == 1..MaxInput

----------------------------------------------------------------------------
(* numpy helpers *)

Rows(M) == Len(M)
Cols(M) == IF Len(M) = 0 THEN 0 ELSE Len(M[1])

\* ndarray.flatten(): row-major
RECURSIVE Flatten(_)
Flatten(M) == IF M = <<>> THEN <<>> ELSE M[1] \o Flatten(Tail(M))

\* v[start:stop] with 0-based start, clamped to the vector as Python slices are
Slice(v, start, stop) == SubSeq(v, start + 1, Min(stop, Len(v)))

\* ndarray.reshape((r, c)): ValueError unless the size is r*c
Reshape(v, r, c) ==
    IF Len(v) # r * c THEN [err |-> "ValueError", val |-> <<>>]
    ELSE [err |-> "none", val |-> [i \in 1..r |-> [j \in 1..c |-> v[(i - 1) * c + j]]]]

RECURSIVE Concat(_)
Concat(ss) == IF ss = <<>> THEN <<>> ELSE ss[1] \o Concat(Tail(ss))

RECURSIVE SumTo(_, _)
SumTo(f, n) == IF n = 0 THEN 0 ELSE f[n] + SumTo(f, n - 1)

\* np.dot(X, W): ValueError unless X's columns are W's rows
Dot(X, W) ==
    IF Cols(X) # Rows(W) THEN [err |-> "ValueError", val |-> <<>>]
    ELSE [err |-> "none",
          val |-> [r \in 1..Rows(X) |-> [c \in 1..Cols(W) |->
                     SumTo([k \in 1..Rows(W) |-> X[r][k] * W[k][c]], Rows(W))]]]

\* A + b with numpy's broadcasting of a vector b over the rows of A
AddBias(A, b) ==
    IF Len(b) = Cols(A) THEN
        [err |-> "none", val |-> [r \in 1..Rows(A) |-> [c \in 1..Cols(A) |-> A[r][c] + b[c]]]]
    ELSE IF Len(b) = 1 THEN
        [err |-> "none", val |-> [r \in 1..Rows(A) |-> [c \in 1..Cols(A) |-> A[r][c] + b[1]]]]
    ELSE IF Cols(A) = 1 THEN
        [err |-> "none", val |-> [r \in 1..Rows(A) |-> [c \in 1..Len(b) |-> A[r][1] + b[c]]]]
    ELSE [err |-> "ValueError", val |-> <<>>]

\* act_func: the default activation, relu, elementwise
act_func(A) == [r \in 1..Rows(A) |-> [c \in 1..Cols(A) |-> IF A[r][c] > 0 THEN A[r][c] ELSE 0]]

\* np.dot(np.linalg.pinv(H), y): the closed-form solution, kept as the H it is solved from
Pinv(H) == [kind |-> "pinv", H |-> H]
NoneBeta == [kind |-> "None", H |-> <<>>]

\* np.linalg.pinv(H) raises LinAlgError (the SVD does not converge) unless H is finite
Finite(H) == \A r \in 1..Rows(H) : \A c \in 1..Cols(H) : H[r][c] <= FloatMax /\ H[r][c] >= -FloatMax

\* the training inputs: two samples with input_size features each
TrainX(input_size) == <<[j \in 1..input_size |-> 1], [j \in 1..input_size |-> j]>>

----------------------------------------------------------------------------
(* MultiLayerELM *)

\* np.random.default_rng(seed): the k-th number of the stream of a seed
Draw(seed, k) == (((seed + 1) * k) % 5) - 2

\* generator.standard_normal(size): the next n numbers of the stream
standard_normal(generator, n) ==
    [val |-> [k \in 1..n |-> Draw(generator.seed, generator.pos + k)],
     generator |-> [generator EXCEPT !.pos = @ + n]]

\* MultiLayerELM.__init__
MultiLayerELM(sizes, seed) ==
    [layer_sizes |-> sizes, generator |-> [seed |-> seed, pos |-> 0],
     weights |-> <<>>, biases |-> <<>>, beta |-> NoneBeta, input_size |-> NoneInt]

\* the loop of _initialize_weights from layer i on
RECURSIVE InitLoop(_, _, _)
InitLoop(net, i, input_size) ==
    IF i > Len(net.layer_sizes) THEN net
    ELSE LET size == net.layer_sizes[i]
             w == standard_normal(net.generator, input_size * size)
             b == standard_normal(w.generator, size)
         IN InitLoop([net EXCEPT !.weights = Append(@, Reshape(w.val, input_size, size).val),
                                 !.biases = Append(@, b.val),
                                 !.generator = b.generator],
                     i + 1, size)

initialize_weights(net, input_size) ==
    InitLoop([net EXCEPT !.weights = <<>>, !.biases = <<>>], 1, input_size)

\* the loop of _forward from layer i on: IndexError when a list is too short
RECURSIVE ForwardLoop(_, _, _)
ForwardLoop(net, i, X) ==
    IF i > Len(net.layer_sizes) THEN [err |-> "none", val |-> X]
    ELSE IF i > Len(net.weights) \/ i > Len(net.biases) THEN [err |-> "IndexError", val |-> <<>>]
    ELSE LET d == Dot(X, net.weights[i])
             s == IF d.err = "none" THEN AddBias(d.val, net.biases[i]) ELSE d
         IN IF s.err # "none" THEN s ELSE ForwardLoop(net, i + 1, act_func(s.val))

forward(net, X) == ForwardLoop(net, 1, X)

\* MultiLayerELM.fit
NetFit(net, X) ==
    LET n1 == initialize_weights([net EXCEPT !.input_size = Cols(X)], Cols(X))
        H == forward(n1, X)
    IN IF H.err # "none" THEN [err |-> H.err, net |-> n1]
       ELSE IF ~Finite(H.val) THEN [err |-> "LinAlgError", net |-> n1]
       ELSE [err |-> "none", net |-> [n1 EXCEPT !.beta = Pinv(H.val)]]

\* MultiLayerELM.predict: the product of H and beta, kept as the pair
predict(net, X) ==
    LET H == forward(net, X)
    IN IF H.err # "none" THEN [err |-> H.err, val |-> [H |-> <<>>, beta |-> NoneBeta]]
       ELSE IF net.beta.kind = "None" THEN [err |-> "TypeError", val |-> [H |-> <<>>, beta |-> NoneBeta]]
       ELSE [err |-> "none", val |-> [H |-> H.val, beta |-> net.beta]]

\* encode with the biases left out of the vector
encode_without_biases(net) ==
    LET flat_weights == [i \in 1..Len(net.weights) |-> Flatten(net.weights[i])]
    IN IF flat_weights = <<>> THEN [err |-> "ValueError", val |-> <<>>]
       ELSE [err |-> "none", val |-> Concat(flat_weights)]

\* MultiLayerELM.encode
encode(net) ==
    LET flat_weights == [i \in 1..Len(net.weights) |-> Flatten(net.weights[i])]
        flat_biases == [i \in 1..Len(net.biases) |-> net.biases[i]]
    IN IF flat_weights \o flat_biases = <<>> THEN [err |-> "ValueError", val |-> <<>>]
       ELSE [err |-> "none", val |-> Concat(flat_weights \o flat_biases)]

\* the weight of one layer read by decode at offset start
DecodeWeight(solution_vector, start, input_size, size) ==
    Reshape(Slice(solution_vector, start, start + input_size * size), input_size, size)

\* the bias of one layer read by decode at offset start
DecodeBias(solution_vector, start, size) == Slice(solution_vector, start, start + size)

\* the loop of decode from layer i on; a failed reshape leaves the lists as they are then
RECURSIVE DecodeLoop(_, _, _, _, _)
DecodeLoop(net, solution_vector, i, start, input_size) ==
    IF i > Len(net.layer_sizes) THEN [err |-> "none", net |-> net]
    ELSE LET size == net.layer_sizes[i]
             weight == DecodeWeight(solution_vector, start, input_size, size)
             bias == DecodeBias(solution_vector, start + input_size * size, size)
         IN IF weight.err # "none" THEN [err |-> weight.err, net |-> net]
            ELSE DecodeLoop([net EXCEPT !.weights = Append(@, weight.val),
                                        !.biases = Append(@, bias)],
                            solution_vector, i + 1, start + input_size * size + size, size)

\* decode that returns without its last two lines: beta is left as it was
UpdateBetaSkipped(net, X) == [err |-> "none", net |-> net]

\* the last two lines of decode: beta from the hidden representation
UpdateBeta(net, X) ==
    LET H == forward(net, X)
    IN IF H.err # "none" THEN [err |-> H.err, net |-> net]
       ELSE IF ~Finite(H.val) THEN [err |-> "LinAlgError", net |-> net]
       ELSE [err |-> "none", net |-> [net EXCEPT !.beta = Pinv(H.val)]]

\* MultiLayerELM.decode
decode(net, solution_vector, X) ==
    IF net.input_size = NoneInt THEN
        [err |-> "TypeError", net |-> [net EXCEPT !.weights = <<>>, !.biases = <<>>]]
    ELSE LET d == DecodeLoop([net EXCEPT !.weights = <<>>, !.biases = <<>>],
                             solution_vector, 1, 0, net.input_size)
         IN IF d.err # "none" THEN d ELSE UpdateBeta(d.net, X)

\* the loop of get_ndim from layer i on
RECURSIVE NdimLoop(_, _, _)
NdimLoop(sizes, i, input_size) ==
    IF i > Len(sizes) THEN 0
    ELSE input_size * sizes[i] + sizes[i] + NdimLoop(sizes, i + 1, sizes[i])

\* MultiLayerELM.get_ndim
get_ndim(net) ==
    IF net.input_size = NoneInt THEN [err |-> "TypeError", val |-> 0]
    ELSE [err |-> "none", val |-> NdimLoop(net.layer_sizes, 1, net.input_size)]

----------------------------------------------------------------------------
(* SpecNet: one MultiLayerELM object and the calls made on it *)

Idle == [kind |-> "idle"]

\* a solution vector of a given length; base varies its entries
Vec(len, base) == [k \in 1..len |-> ((k + base) % 4) - 1]

\* the lengths of the vectors handed to decode, relative to ndim:
\* two entries short, one entry short, exact, one entry long
LengthOffsets == {-2, -1, 0, 1}

\* the vectors handed to decode
DecodeInputs(net) ==
    LET nd == IF get_ndim(net).err = "none" THEN get_ndim(net).val ELSE 0
    IN {Vec(nd + off, base) : off \in {o \in LengthOffsets : nd + o >= 0}, base \in {0, 1}}

NoRet == [op |-> "none"]

InitNet ==
    /\ network \in {MultiLayerELM(t, s) : t \in Topologies, s \in Seeds}
    /\ data \in {TrainX(n) : n \in InputSizes}
    /\ call = [op |-> "init", arg |-> <<>>, of |-> "none", err |-> "none", clean |-> TRUE]
    /\ ret = NoRet
    /\ pre = Idle
    /\ fits = 0
    /\ catalogs = Idle /\ res = Idle
    /\ est = Idle /\ run = Idle /\ evals = Idle /\ copies = Idle

\* network.fit(X, y)
Fit ==
    /\ fits < MaxFits
    /\ \E r \in {NetFit(network, data)} :
          /\ network' = r.net
          /\ call' = [op |-> "fit", arg |-> <<>>, of |-> "none", err |-> r.err,
                      clean |-> call.clean /\ r.err = "none"]
    /\ pre' = Idle
    /\ ret' = NoRet
    /\ fits' = fits + 1
    /\ UNCHANGED <<data, resVars, fitVars>>

\* network.decode(v, X, y) for a vector v
Decode(v) ==
    /\ \E r \in {decode(network, v, data)} :
          /\ network' = r.net
          /\ call' = [op |-> "decode", arg |-> v, of |-> "vector", err |-> r.err,
                      clean |-> call.clean /\ r.err = "none"]
    /\ pre' = Idle
    /\ ret' = NoRet
    /\ UNCHANGED <<data, fits, resVars, fitVars>>

\* network.decode(network.encode(), X, y)
DecodeEncoded ==
    /\ encode(network).err = "none"
    /\ \E r \in {decode(network, encode(network).val, data)} :
          /\ network' = r.net
          /\ call' = [op |-> "decode", arg |-> encode(network).val, of |-> "encode",
                      err |-> r.err, clean |-> call.clean /\ r.err = "none"]
    /\ pre' = network
    /\ ret' = NoRet
    /\ UNCHANGED <<data, fits, resVars, fitVars>>

\* v = network.encode(); n = network.get_ndim()
CallEncodeGetNdim ==
    /\ ret.op = "none"
    /\ ret' = [op |-> "encode, get_ndim", encode |-> encode(network), ndim |-> get_ndim(network)]
    /\ UNCHANGED <<network, data, call, pre, fits, resVars, fitVars>>

NextNet ==
    \/ Fit
    \/ \E v \in DecodeInputs(network) : Decode(v)
    \/ DecodeEncoded
    \/ CallEncodeGetNdim

SpecNet == InitNet /\ [][NextNet]_vars

----------------------------------------------------------------------------
(* Properties of the network *)

\* the shapes the data model requires of weights and biases
ShapeOK(net) ==
    /\ Len(net.weights) = Len(net.layer_sizes)
    /\ Len(net.biases) = Len(net.layer_sizes)
    /\ \A i \in 1..Len(net.layer_sizes) :
         /\ Cols(net.weights[i]) = net.layer_sizes[i]
         /\ Len(net.biases[i]) = net.layer_sizes[i]
         /\ Rows(net.weights[i]) = (IF i = 1 THEN net.input_size ELSE net.layer_sizes[i - 1])

\* the last call allocated or restored the parameters of the whole topology
Initialized ==
    /\ call.err = "none"
    /\ \/ call.op = "fit"
       \/ call.op = "decode" /\ Len(call.arg) = get_ndim(network).val

\* the last call was decode(encode(), X, y) on a well-shaped network
RoundTripCall ==
    /\ call.op = "decode"
    /\ call.of = "encode"
    /\ ShapeOK(pre)

\* C1: decode(encode(), X, y) leaves every weights[i] and biases[i] equal to its
\* value before the call, for every topology.
C1_RoundTrip ==
    RoundTripCall =>
        /\ call.err = "none"
        /\ network.weights = pre.weights
        /\ network.biases = pre.biases

\* C2: decode fails with an error whenever the vector's length differs from
\* get_ndim(), for shorter and for longer vectors.
C2_DecodeRejectsWrongLength ==
    (/\ call.op = "decode"
     /\ get_ndim(network).err = "none"
     /\ Len(call.arg) # get_ndim(network).val)
        => call.err # "none"

\* C7: once the network is initialized, the vector encode() returns has
\* get_ndim() entries.
C7_EncodeLengthIsNdim ==
    (ret.op # "none" /\ Initialized) =>
        /\ ret.encode.err = "none"
        /\ ret.ndim.err = "none"
        /\ Len(ret.encode.val) = ret.ndim.val

C7_Witness ==
    /\ ret.op # "none" /\ Initialized
    /\ Len(network.layer_sizes) >= 2
    /\ Len(ret.encode.val) = ret.ndim.val

\* the layout in which each layer's flattened weights are followed by its biases
RECURSIVE LayerwiseLayout(_, _)
LayerwiseLayout(net, i) ==
    IF i > Len(net.layer_sizes) THEN <<>>
    ELSE Flatten(net.weights[i]) \o net.biases[i] \o LayerwiseLayout(net, i + 1)

\* C8: encode() lays the vector out layer by layer, weights[i] flattened
\* row-major immediately followed by biases[i], then layer i+1.
C8_EncodeLayerByLayer ==
    (ret.op # "none" /\ Initialized) =>
        /\ ret.encode.err = "none"
        /\ ret.encode.val = LayerwiseLayout(network, 1)

\* C10: after any sequence of fit and decode calls that all returned without
\* error, weights and biases have the shapes of the topology.
C10_ShapeInvariant ==
    (call.op \in {"fit", "decode"} /\ call.clean) => ShapeOK(network)

\* C11: a fit that returns leaves the weights, biases and beta that the first fit
\* of a model built with the same seed and layer_sizes gets on the same input, also
\* when it is a repeated fit on the same object.
C11_SeededFitDeterministic ==
    (call.op = "fit" /\ call.err = "none") =>
        LET first == NetFit(MultiLayerELM(network.layer_sizes, network.generator.seed), data).net
        IN /\ network.weights = first.weights
           /\ network.biases = first.biases
           /\ network.beta = first.beta

\* C15: after a fit or a decode that returns, beta is the closed-form solution for
\* the hidden representation of the weights and biases the network holds.
C15_BetaConsistent ==
    (call.op \in {"fit", "decode"} /\ call.err = "none") =>
        /\ forward(network, data).err = "none"
        /\ network.beta = Pinv(forward(network, data).val)

C15_Witness ==
    /\ call.op = "decode" /\ call.of = "vector" /\ call.err = "none"
    /\ fits >= 1
    /\ Len(network.layer_sizes) >= 2
    /\ network.beta = Pinv(forward(network, data).val)

----------------------------------------------------------------------------
(* BaseMhaElm: the bounds and objective resolvers *)

MaxBoundLen == 3        \* length of a bounds sequence
MaxProblemSize == 3     \* problem_size

SeqKinds == {"list", "tuple", "ndarray"}
NumberKinds == {"int", "float"}
BoundVals == {-1, 1}

\* the values given as lb or ub: sequences, bare numbers (a one-entry val), a string, None
BoundArgs ==
    {[kind |-> k, val |-> v] : k \in SeqKinds, v \in SeqsUpTo(BoundVals, MaxBoundLen)}
      \cup {[kind |-> k, val |-> <<x>>] : k \in NumberKinds, x \in BoundVals}
      \cup {[kind |-> "str", val |-> <<>>], [kind |-> "None", val |-> <<>>]}

\* x * problem_size: a list or tuple is repeated, an ndarray is multiplied entry by entry
Times(x, problem_size) ==
    IF x.kind = "ndarray" THEN [i \in 1..Len(x.val) |-> x.val[i] * problem_size]
    ELSE [i \in 1..(Len(x.val) * problem_size) |-> x.val[((i - 1) % Len(x.val)) + 1]]

BoundsError == [err |-> "ValueError", lb |-> <<>>, ub |-> <<>>]

\* the branch of _get_lb_ub for two sequences without the test len(lb) == len(ub)
SeqBoundsNoLengthTest(lb, ub, problem_size) ==
    IF Len(lb.val) = 1 THEN
        [err |-> "none",
         lb |-> [kind |-> "ndarray", val |-> Times(lb, problem_size)],
         ub |-> [kind |-> "ndarray", val |-> Times(ub, problem_size)]]
    ELSE IF Len(lb.val) # problem_size THEN BoundsError
    ELSE [err |-> "none", lb |-> lb, ub |-> ub]

\* the branch of _get_lb_ub for two sequences
SeqBounds(lb, ub, problem_size) ==
    IF Len(lb.val) = Len(ub.val) THEN
        IF Len(lb.val) = 1 THEN
            [err |-> "none",
             lb |-> [kind |-> "ndarray", val |-> Times(lb, problem_size)],
             ub |-> [kind |-> "ndarray", val |-> Times(ub, problem_size)]]
        ELSE IF Len(lb.val) # problem_size THEN BoundsError
        ELSE [err |-> "none", lb |-> lb, ub |-> ub]
    ELSE BoundsError

\* BaseMhaElm._get_lb_ub
get_lb_ub(lb, ub, problem_size) ==
    IF lb.kind \in SeqKinds /\ ub.kind \in SeqKinds THEN SeqBounds(lb, ub, problem_size)
    ELSE IF lb.kind \in NumberKinds /\ ub.kind \in NumberKinds THEN
        [err |-> "none",
         lb |-> [kind |-> "tuple", val |-> [i \in 1..problem_size |-> lb.val[1]]],
         ub |-> [kind |-> "tuple", val |-> [i \in 1..problem_size |-> ub.val[1]]]]
    ELSE BoundsError

\* the catalogs of objective names: a record maps each name to "min" or "max"
RegCatalogs == {[MSE |-> "min"], [MSE |-> "min", GINI |-> "min"], [MSE |-> "min", GINI |-> "max"]}
ClsCatalogs == {[AS |-> "max"], [AS |-> "max", GINI |-> "min"], [AS |-> "max", GINI |-> "max"]}
Catalogs == {[SUPPORTED_REG_OBJECTIVES |-> r, SUPPORTED_CLS_OBJECTIVES |-> c] :
                r \in RegCatalogs, c \in ClsCatalogs}

\* the values given as obj_name: None or a string
ObjNames == {[isNone |-> TRUE, name |-> ""]}
              \cup {[isNone |-> FALSE, name |-> n] : n \in {"MSE", "AS", "GINI", "XYZ"}}

\* _get_minmax with the classification catalog looked up first
get_minmax_cls_first(cat, obj_name) ==
    IF obj_name.isNone THEN [err |-> "ValueError", val |-> ""]
    ELSE IF obj_name.name \in DOMAIN cat.SUPPORTED_CLS_OBJECTIVES
        THEN [err |-> "none", val |-> cat.SUPPORTED_CLS_OBJECTIVES[obj_name.name]]
    ELSE IF obj_name.name \in DOMAIN cat.SUPPORTED_REG_OBJECTIVES
        THEN [err |-> "none", val |-> cat.SUPPORTED_REG_OBJECTIVES[obj_name.name]]
    ELSE [err |-> "ValueError", val |-> ""]

\* BaseMhaElm._get_minmax
get_minmax(cat, obj_name) ==
    IF obj_name.isNone THEN [err |-> "ValueError", val |-> ""]
    ELSE IF obj_name.name \in DOMAIN cat.SUPPORTED_REG_OBJECTIVES
        THEN [err |-> "none", val |-> cat.SUPPORTED_REG_OBJECTIVES[obj_name.name]]
    ELSE IF obj_name.name \in DOMAIN cat.SUPPORTED_CLS_OBJECTIVES
        THEN [err |-> "none", val |-> cat.SUPPORTED_CLS_OBJECTIVES[obj_name.name]]
    ELSE [err |-> "ValueError", val |-> ""]

----------------------------------------------------------------------------
(* SpecRes: calls of the two resolvers *)

InitRes ==
    /\ catalogs \in Catalogs
    /\ res = [op |-> "none"]
    /\ network = Idle /\ data = Idle
    /\ call = Idle /\ ret = Idle /\ pre = Idle /\ fits = 0
    /\ est = Idle /\ run = Idle /\ evals = Idle /\ copies = Idle

\* self._get_lb_ub(lb, ub, problem_size)
CallGetLbUb ==
    /\ res.op = "none"
    /\ \E lb \in BoundArgs, ub \in BoundArgs, problem_size \in 1..MaxProblemSize :
         LET r == get_lb_ub(lb, ub, problem_size)
         IN res' = [op |-> "get_lb_ub", lb_in |-> lb, ub_in |-> ub,
                    problem_size |-> problem_size,
                    err |-> r.err, lb |-> r.lb, ub |-> r.ub]
    /\ UNCHANGED <<network, data, netVars, catalogs, fitVars>>

\* self._get_minmax(obj_name)
CallGetMinmax ==
    /\ res.op = "none"
    /\ \E obj_name \in ObjNames :
         LET r == get_minmax(catalogs, obj_name)
         IN res' = [op |-> "get_minmax", obj_name |-> obj_name, err |-> r.err, val |-> r.val]
    /\ UNCHANGED <<network, data, netVars, catalogs, fitVars>>

\* the caller has taken the result
Return ==
    /\ res.op # "none"
    /\ res' = [op |-> "none"]
    /\ UNCHANGED <<network, data, netVars, catalogs, fitVars>>

NextRes ==
    \/ CallGetLbUb
    \/ CallGetMinmax
    \/ Return

SpecRes == InitRes /\ [][NextRes]_vars

----------------------------------------------------------------------------
(* Properties of the resolvers *)

AllEqual(v, x) == \A i \in 1..Len(v) : v[i] = x

\* C3: whenever _get_lb_ub returns, both bounds have problem_size entries, and a
\* single supplied value (a length-1 sequence of any kind, or a bare number) fills
\* every entry.
C3_BoundsHaveProblemSize ==
    (res.op = "get_lb_ub" /\ res.err = "none") =>
        /\ Len(res.lb.val) = res.problem_size
        /\ Len(res.ub.val) = res.problem_size
        /\ (Len(res.lb_in.val) = 1 /\ Len(res.ub_in.val) = 1) =>
              /\ AllEqual(res.lb.val, res.lb_in.val[1])
              /\ AllEqual(res.ub.val, res.ub_in.val[1])

\* the pairs the bounds resolver has to refuse
Mismatched(lb, ub, problem_size) ==
    IF lb.kind \in SeqKinds /\ ub.kind \in SeqKinds
    THEN \/ Len(lb.val) # Len(ub.val)
         \/ Len(lb.val) \notin {1, problem_size}
    ELSE ~(lb.kind \in NumberKinds /\ ub.kind \in NumberKinds)

\* C4: _get_lb_ub raises for sequences of different lengths, for a common length
\* that is neither 1 nor problem_size, and for every other combination of types.
C4_MismatchedBoundsRaise ==
    (res.op = "get_lb_ub" /\ Mismatched(res.lb_in, res.ub_in, res.problem_size))
        => res.err # "none"

C4_Witness ==
    /\ res.op = "get_lb_ub"
    /\ res.lb_in.kind \in SeqKinds /\ res.ub_in.kind \in SeqKinds
    /\ Len(res.lb_in.val) = 2 /\ Len(res.ub_in.val) = 1
    /\ res.err = "ValueError"

\* C9: _get_minmax returns the direction of the regression catalog, else of the
\* classification catalog, and raises for None and for a name in neither.
C9_MinmaxLookup ==
    res.op = "get_minmax" =>
        LET reg == catalogs.SUPPORTED_REG_OBJECTIVES
            cls == catalogs.SUPPORTED_CLS_OBJECTIVES
            name == res.obj_name.name
        IN IF res.obj_name.isNone \/ name \notin (DOMAIN reg \cup DOMAIN cls)
           THEN res.err # "none"
           ELSE /\ res.err = "none"
                /\ res.val = (IF name \in DOMAIN reg THEN reg[name] ELSE cls[name])

C9_Witness ==
    /\ res.op = "get_minmax"
    /\ ~res.obj_name.isNone
    /\ res.obj_name.name \in DOMAIN catalogs.SUPPORTED_REG_OBJECTIVES
    /\ res.obj_name.name \in DOMAIN catalogs.SUPPORTED_CLS_OBJECTIVES
    /\ catalogs.SUPPORTED_REG_OBJECTIVES[res.obj_name.name]
         # catalogs.SUPPORTED_CLS_OBJECTIVES[res.obj_name.name]
    /\ res.err = "none"

----------------------------------------------------------------------------
(* BaseMhaElm.fit *)

MaxEvals == 2       \* fitness evaluations the optimizer makes in one solve

Workers == {1, 2}   \* the optimizer's workers; the sequential modes use worker 1
Modes == {"single", "swarm", "thread", "process"}
Parallel == {"thread", "process"}

\* layer_sizes of the estimators that are fitted
FitTopologies == {t \in Topologies : SumSeq(t) <= 2}

\* the values given as optim and optim_paras
Optims == {[kind |-> "str", name |-> "BaseGA"], [kind |-> "Optimizer", name |-> "OriginalPSO"],
           [kind |-> "other", name |-> ""]}
OptimParas == {[kind |-> "dict"], [kind |-> "other"]}

\* the values given as lb and ub to fit
FitBounds == {<<[kind |-> "tuple", val |-> <<-1>>], [kind |-> "tuple", val |-> <<1>>]>>,
              <<[kind |-> "list", val |-> <<-1, -1>>], [kind |-> "tuple", val |-> <<1>>]>>,
              <<[kind |-> "ndarray", val |-> <<-1>>], [kind |-> "ndarray", val |-> <<1>>]>>}

FitCatalogs == [SUPPORTED_REG_OBJECTIVES |-> [MSE |-> "min"],
                SUPPORTED_CLS_OBJECTIVES |-> [AS |-> "max"]]

\* create_network of the subclasses: a new network, its input size set and its
\* weights allocated from the seeded generator
create_network(sizes, seed, X) ==
    initialize_weights([MultiLayerELM(sizes, seed) EXCEPT !.input_size = Cols(X)], Cols(X))

\* set_optimizer_object without the final else branch that raises
set_optimizer_object_any_type(optim, optim_paras) ==
    IF optim.kind = "str" THEN
        IF optim_paras.kind = "dict" THEN [err |-> "none", optimizer |-> optim.name]
        ELSE [err |-> "TypeError", optimizer |-> ""]
    ELSE [err |-> "none", optimizer |-> optim.name]

\* BaseMhaElm.set_optimizer_object: the optimizer object, named by its class
set_optimizer_object(optim, optim_paras) ==
    IF optim.kind = "str" THEN
        IF optim_paras.kind = "dict" THEN [err |-> "none", optimizer |-> optim.name]
        ELSE [err |-> "TypeError", optimizer |-> ""]
    ELSE IF optim.kind = "Optimizer" THEN [err |-> "none", optimizer |-> optim.name]
    ELSE [err |-> "TypeError", optimizer |-> ""]

\* the candidate vectors of the optimizer: the two corners of the box of bounds
Candidates(bounds) == {bounds.lb.val, bounds.ub.val}

IdleWorker == [pc |-> "idle", solution |-> <<>>, i |-> 0, start |-> 0, input_size |-> 0]
NoWorkers == [w \in Workers |-> IdleWorker]
NoBounds == [lb |-> [kind |-> "None", val |-> <<>>], ub |-> [kind |-> "None", val |-> <<>>]]
NoFitness == [H |-> <<>>, beta |-> NoneBeta]

\* the fitness a candidate gets when it is evaluated alone: decode, predict, score
\* (the score is kept as the prediction it is computed from)
FitnessAlone(net, solution, X) == predict(decode(net, solution, X).net, X)

InitFit ==
    /\ est \in {[layer_sizes |-> t, seed |-> 0, obj_name |-> o, optim |-> op, optim_paras |-> pa,
                 optimizer |-> "", X_temp |-> <<>>, solution |-> <<>>,
                 best_fit |-> NoFitness, loss_train |-> <<>>] :
                   t \in FitTopologies, o \in ObjNames, op \in Optims, pa \in OptimParas}
    /\ est.obj_name.name \in {"", "MSE", "XYZ"}
    /\ network = Idle
    /\ data = TrainX(1)
    /\ run = [pc |-> "idle", lb |-> Idle, ub |-> Idle, mode |-> "single", problem_size |-> 0,
              bounds |-> NoBounds, minmax |-> "", solve_calls |-> 0, started |-> 0,
              results |-> {}, err |-> "none"]
    /\ evals = NoWorkers
    /\ copies = [w \in Workers |-> Idle]
    /\ catalogs = FitCatalogs
    /\ res = Idle /\ call = Idle /\ ret = Idle /\ pre = Idle /\ fits = 0

\* the network a worker's evaluation decodes into: the estimator's network, or in
\* process mode the copy of it in the worker process
Target(w) == IF run.mode = "process" THEN copies[w] ELSE network

Raise(e) ==
    /\ run' = [run EXCEPT !.pc = "raised", !.err = e]
    /\ evals' = NoWorkers

\* fit(X, y, lb, ub, mode): lines 749-752
FitCall(lb, ub, mode) ==
    /\ run.pc \in {"idle", "returned", "raised"}
    /\ network' = create_network(est.layer_sizes, est.seed, data)
    /\ est' = [est EXCEPT !.X_temp = data]
    /\ run' = [pc |-> "bounds", lb |-> lb, ub |-> ub, mode |-> mode,
               problem_size |-> get_ndim(network').val,
               bounds |-> NoBounds, minmax |-> "", solve_calls |-> 0, started |-> 0,
               results |-> {}, err |-> "none"]
    /\ evals' = NoWorkers
    /\ copies' = [w \in Workers |-> Idle]
    /\ UNCHANGED <<data, netVars, resVars>>

\* line 753: lb, ub = self._get_lb_ub(lb, ub, problem_size)
ResolveBounds ==
    /\ run.pc = "bounds"
    /\ \E r \in {get_lb_ub(run.lb, run.ub, run.problem_size)} :
         IF r.err # "none" THEN Raise(r.err)
         ELSE /\ run' = [run EXCEPT !.pc = "minmax", !.bounds = [lb |-> r.lb, ub |-> r.ub]]
              /\ UNCHANGED evals
    /\ UNCHANGED <<network, data, netVars, resVars, est, copies>>

\* line 754: minmax = self._get_minmax(self.obj_name)
ResolveMinmax ==
    /\ run.pc = "minmax"
    /\ \E r \in {get_minmax(catalogs, est.obj_name)} :
         IF r.err # "none" THEN Raise(r.err)
         ELSE /\ run' = [run EXCEPT !.pc = "optimizer", !.minmax = r.val]
              /\ UNCHANGED evals
    /\ UNCHANGED <<network, data, netVars, resVars, est, copies>>

\* lines 755-764: the problem, then self.set_optimizer_object(self.optim, self.optim_paras)
SetOptimizer ==
    /\ run.pc = "optimizer"
    /\ \E r \in {set_optimizer_object(est.optim, est.optim_paras)} :
         IF r.err # "none" THEN Raise(r.err) /\ UNCHANGED est
         ELSE /\ run' = [run EXCEPT !.pc = "solve"]
              /\ est' = [est EXCEPT !.optimizer = r.optimizer]
              /\ UNCHANGED evals
    /\ UNCHANGED <<network, data, netVars, resVars, copies>>

\* line 765: self.optimizer.solve(problem, mode=mode, ...) is entered
SolveStart ==
    /\ run.pc = "solve"
    /\ run' = [run EXCEPT !.pc = "search", !.solve_calls = @ + 1]
    /\ UNCHANGED <<network, data, netVars, resVars, est, evals, copies>>

\* the optimizer hands a candidate to a worker, which calls fitness_function on it
StartEval(w, solution) ==
    /\ run.pc = "search"
    /\ run.started < MaxEvals
    /\ evals[w].pc = "idle"
    /\ run.mode \notin Parallel => w = 1 /\ \A u \in Workers : evals[u].pc = "idle"
    /\ run' = [run EXCEPT !.started = @ + 1]
    /\ evals' = [evals EXCEPT ![w] = [IdleWorker EXCEPT !.pc = "reset", !.solution = solution]]
    /\ copies' = IF run.mode = "process" THEN [copies EXCEPT ![w] = network] ELSE copies
    /\ UNCHANGED <<network, data, netVars, resVars, est>>

\* the target network after a worker's step
SetTarget(w, net) ==
    IF run.mode = "process"
    THEN copies' = [copies EXCEPT ![w] = net] /\ UNCHANGED network
    ELSE network' = net /\ UNCHANGED copies

\* decode in a worker, lines 129-132
EvalReset(w) ==
    /\ run.pc = "search"
    /\ evals[w].pc = "reset"
    /\ SetTarget(w, [Target(w) EXCEPT !.weights = <<>>, !.biases = <<>>])
    /\ evals' = [evals EXCEPT ![w] = [@ EXCEPT !.pc = "layer", !.i = 1, !.start = 0,
                                                !.input_size = Target(w).input_size]]
    /\ UNCHANGED <<data, netVars, resVars, est, run>>

\* decode in a worker, lines 135-149 for one layer
EvalLayer(w) ==
    /\ run.pc = "search"
    /\ evals[w].pc = "layer"
    /\ LET e == evals[w]
           size == est.layer_sizes[e.i]
       IN \E weight \in {DecodeWeight(e.solution, e.start, e.input_size, size)} :
            IF weight.err # "none"
            THEN Raise(weight.err) /\ UNCHANGED <<network, copies>>
            ELSE /\ SetTarget(w, [Target(w) EXCEPT
                       !.weights = Append(@, weight.val),
                       !.biases = Append(@, DecodeBias(e.solution,
                                                       e.start + e.input_size * size, size))])
                 /\ evals' = [evals EXCEPT ![w] = [@ EXCEPT
                       !.pc = IF e.i = Len(est.layer_sizes) THEN "beta" ELSE "layer",
                       !.i = e.i + 1,
                       !.start = e.start + e.input_size * size + size,
                       !.input_size = size]]
                 /\ UNCHANGED run
    /\ UNCHANGED <<data, netVars, resVars, est>>

\* decode in a worker, lines 151-153
EvalBeta(w) ==
    /\ run.pc = "search"
    /\ evals[w].pc = "beta"
    /\ \E r \in {UpdateBeta(Target(w), est.X_temp)} :
         IF r.err # "none"
         THEN Raise(r.err) /\ UNCHANGED <<network, copies>>
         ELSE /\ SetTarget(w, r.net)
              /\ evals' = [evals EXCEPT ![w] = [@ EXCEPT !.pc = "predict"]]
              /\ UNCHANGED run
    /\ UNCHANGED <<data, netVars, resVars, est>>

\* the rest of fitness_function in a worker: predict on the training inputs, score,
\* return the fitness to the optimizer
EvalPredict(w) ==
    /\ run.pc = "search"
    /\ evals[w].pc = "predict"
    /\ \E r \in {predict(Target(w), est.X_temp)} :
         IF r.err # "none" THEN Raise(r.err)
         ELSE /\ run' = [run EXCEPT !.results = @ \cup
                            {[solution |-> evals[w].solution, fitness |-> r.val]}]
              /\ evals' = [evals EXCEPT ![w] = IdleWorker]
    /\ UNCHANGED <<network, data, netVars, resVars, est, copies>>

\* solve returns g_best, one of the evaluated candidates; line 766
SolveReturn ==
    /\ run.pc = "search"
    /\ \A w \in Workers : evals[w].pc = "idle"
    /\ \E g_best \in run.results :
         est' = [est EXCEPT !.solution = g_best.solution, !.best_fit = g_best.fitness]
    /\ run' = [run EXCEPT !.pc = "finalize"]
    /\ UNCHANGED <<network, data, netVars, resVars, evals, copies>>

\* line 767: self.network.decode(self.solution, self.X_temp, self.y_temp)
Finalize ==
    /\ run.pc = "finalize"
    /\ \E r \in {decode(network, est.solution, est.X_temp)} :
         /\ network' = r.net
         /\ IF r.err # "none" THEN Raise(r.err)
            ELSE run' = [run EXCEPT !.pc = "history"] /\ UNCHANGED evals
    /\ UNCHANGED <<data, netVars, resVars, est, copies>>

\* lines 768-769: the history of the best fitness, one entry per iteration; return self
HistoryReturn ==
    /\ run.pc = "history"
    /\ est' = [est EXCEPT !.loss_train = <<est.best_fit>>]
    /\ run' = [run EXCEPT !.pc = "returned"]
    /\ UNCHANGED <<network, data, netVars, resVars, evals, copies>>

NextFit ==
    \/ \E b \in FitBounds, mode \in Modes : FitCall(b[1], b[2], mode)
    \/ ResolveBounds
    \/ ResolveMinmax
    \/ SetOptimizer
    \/ SolveStart
    \/ \E w \in Workers : \E solution \in Candidates(run.bounds) : StartEval(w, solution)
    \/ \E w \in Workers : EvalReset(w)
    \/ \E w \in Workers : EvalLayer(w)
    \/ \E w \in Workers : EvalBeta(w)
    \/ \E w \in Workers : EvalPredict(w)
    \/ SolveReturn
    \/ Finalize
    \/ HistoryReturn

SpecFit == InitFit /\ [][NextFit]_vars

----------------------------------------------------------------------------
(* SpecEst: one estimator over several sequential fit calls on different data, *)
(* and get_name                                                                *)

Sequential == Modes \ Parallel

\* the training inputs given to the fit calls: one column, two samples
FitData == {TrainX(1), <<<<2>>, <<1>>>>}

\* bounds so wide that a candidate at the upper corner overflows the hidden layer
WideBounds == <<[kind |-> "tuple", val |-> <<-1>>], [kind |-> "tuple", val |-> <<FloatMax>>]>>
EstBounds == FitBounds \cup {WideBounds}

\* str(optim_paras)
str(optim_paras) == IF optim_paras.kind = "dict" THEN "{'epoch': 500, 'pop_size': 20}" ELSE "[]"

\* BaseMhaElm.get_name; optimizer = "" stands for an estimator without the attribute
get_name(e) ==
    IF e.optim.kind = "str" THEN [err |-> "none", val |-> <<str(e.optim_paras), "-ELM">>]
    ELSE IF e.optimizer = "" THEN [err |-> "AttributeError", val |-> <<>>]
    ELSE [err |-> "none", val |-> <<e.optimizer, "-ELM">>]

\* fit(X, y, lb, ub, mode) that also forgets the results of the previous fit
FitCallOnClears(X, lb, ub, mode) ==
    /\ run.pc \in {"idle", "returned", "raised"}
    /\ data' = X
    /\ network' = create_network(est.layer_sizes, est.seed, X)
    /\ est' = [est EXCEPT !.X_temp = X, !.solution = <<>>, !.best_fit = NoFitness,
                           !.loss_train = <<>>]
    /\ run' = [pc |-> "bounds", lb |-> lb, ub |-> ub, mode |-> mode,
               problem_size |-> get_ndim(network').val,
               bounds |-> NoBounds, minmax |-> "", solve_calls |-> 0, started |-> 0,
               results |-> {}, err |-> "none"]
    /\ evals' = NoWorkers
    /\ copies' = [w \in Workers |-> Idle]
    /\ UNCHANGED <<netVars, resVars>>

\* fit(X, y, lb, ub, mode) on the inputs X: lines 749-752
FitCallOn(X, lb, ub, mode) ==
    /\ run.pc \in {"idle", "returned", "raised"}
    /\ data' = X
    /\ network' = create_network(est.layer_sizes, est.seed, X)
    /\ est' = [est EXCEPT !.X_temp = X]
    /\ run' = [pc |-> "bounds", lb |-> lb, ub |-> ub, mode |-> mode,
               problem_size |-> get_ndim(network').val,
               bounds |-> NoBounds, minmax |-> "", solve_calls |-> 0, started |-> 0,
               results |-> {}, err |-> "none"]
    /\ evals' = NoWorkers
    /\ copies' = [w \in Workers |-> Idle]
    /\ UNCHANGED <<netVars, resVars>>

\* name = estimator.get_name(), called between fit calls
GetName ==
    /\ run.pc \in {"idle", "returned", "raised"}
    /\ \E r \in {get_name(est)} : res' = [op |-> "get_name", err |-> r.err, val |-> r.val]
    /\ UNCHANGED <<network, data, netVars, catalogs, fitVars>>

NextEst ==
    \/ \E X \in FitData, b \in EstBounds, mode \in Sequential : FitCallOn(X, b[1], b[2], mode)
    \/ ResolveBounds
    \/ ResolveMinmax
    \/ SetOptimizer
    \/ SolveStart
    \/ \E w \in Workers : \E solution \in Candidates(run.bounds) : StartEval(w, solution)
    \/ \E w \in Workers : EvalReset(w)
    \/ \E w \in Workers : EvalLayer(w)
    \/ \E w \in Workers : EvalBeta(w)
    \/ \E w \in Workers : EvalPredict(w)
    \/ SolveReturn
    \/ Finalize
    \/ HistoryReturn
    \/ GetName

SpecEst == InitFit /\ [][NextEst]_vars

----------------------------------------------------------------------------
(* Properties of BaseMhaElm.fit *)

\* C5: under the parallel modes every fitness an evaluation returns is the fitness
\* its candidate gets when evaluated alone, whatever the interleaving.
C5_EvaluationsIsolated ==
    (run.pc # "idle" /\ run.mode \in Parallel) =>
        \A r \in run.results :
            r.fitness = FitnessAlone(network, r.solution, est.X_temp).val

\* the configuration errors of a fit call
ConfigInvalid ==
    /\ run.pc # "idle"
    /\ \/ Mismatched(run.lb, run.ub, run.problem_size)
       \/ est.obj_name.isNone
       \/ est.obj_name.name \notin (DOMAIN catalogs.SUPPORTED_REG_OBJECTIVES
                                      \cup DOMAIN catalogs.SUPPORTED_CLS_OBJECTIVES)
       \/ est.optim.kind \notin {"str", "Optimizer"}
       \/ est.optim.kind = "str" /\ est.optim_paras.kind # "dict"

\* C6: a fit call with a configuration error never invokes optimizer.solve: it
\* raises before the search starts.
C6_ConfigErrorsBeforeSearch ==
    ConfigInvalid =>
        /\ run.solve_calls = 0
        /\ run.pc \in {"bounds", "minmax", "optimizer", "raised"}

C6_Witness ==
    /\ ConfigInvalid
    /\ est.optim.kind = "other"
    /\ ~Mismatched(run.lb, run.ub, run.problem_size)
    /\ est.obj_name.name = "MSE"
    /\ run.pc = "raised"

\* C12: a degenerate pseudoinverse in the evaluation of a candidate does not end
\* the fit call: once solve is entered, fit is never left by a LinAlgError.
C12_DegenerateDoesNotAbort ==
    (run.pc = "raised" /\ run.solve_calls > 0) => run.err # "LinAlgError"

\* a fit call is between the creation of its network and its return
InFit == run.pc \notin {"idle", "returned", "raised"}

\* C14: a fit call passes in order through solve, the finalize decode and the
\* history, and between the creation of the network and the return of fit the
\* finalize decode, made after solve has returned, is the only write to the network.
C14_OnlyFinalizeWritesNetwork ==
    [][/\ (InFit /\ network' # network) =>
             (run.pc = "finalize" /\ \A w \in Workers : evals[w].pc = "idle")
       /\ (run'.pc = "search" /\ run.pc # "search") => run.pc = "solve"
       /\ (run'.pc = "finalize" /\ run.pc # "finalize") => run.pc = "search"
       /\ (run'.pc = "history" /\ run.pc # "history") => run.pc = "finalize"
       /\ (run'.pc = "returned" /\ run.pc # "returned") => run.pc = "history"]_vars

\* C13: get_name() returns the name of the optimizer in use followed by "-ELM",
\* for optim given as a string and as an Optimizer instance, before and after fit.
C13_GetNameIsOptimizerName ==
    (res # Idle /\ est.optim.kind \in {"str", "Optimizer"}) =>
        /\ res.err = "none"
        /\ res.val = <<est.optim.name, "-ELM">>

\* a fit call that raised before solve was entered
ConfigFailed == run.pc = "raised" /\ run.solve_calls = 0

\* C16: when fit raises a configuration error, the network and X_temp are already
\* those of the new call, and no step of the call up to the error has touched
\* solution, best_fit and loss_train, which keep the values of the previous fit.
C16_FailedFitNotAtomic ==
    /\ [](ConfigFailed =>
             /\ network = create_network(est.layer_sizes, est.seed, data)
             /\ est.X_temp = data)
    /\ [][(run'.pc # "idle" /\ run'.solve_calls = 0) =>
             /\ est'.solution = est.solution
             /\ est'.best_fit = est.best_fit
             /\ est'.loss_train = est.loss_train]_vars

C16_Witness ==
    /\ ConfigFailed /\ ConfigInvalid
    /\ est.solution # <<>> /\ est.loss_train = <<est.best_fit>>
    /\ network.beta = NoneBeta /\ network.weights # <<>>
    /\ est.X_temp = data /\ data # TrainX(1)

====
